---- MODULE Spec2Model ----
(***************************************************************************)
(* Arming / disarming and failsafe gate of the flight firmware             *)
(* (rosflight_firmware::Mode, src/src/mode.cpp).                           *)
(*                                                                         *)
(* The Mode object's fields, the function-static blink counter of          *)
(* check_failsafe() and the board's LED 1 are the state.  The board clock  *)
(* is the only collaborator that carries state of its own here; every      *)
(* other collaborator read (RC frame, sticks, switch, parameters, gyro     *)
(* calibration status) is an input of the call that reads it.              *)
(***************************************************************************)
EXTENDS Integers, Naturals, Sequences, FiniteSets, TLC

VARIABLES
  _armed,                     \* Mode::_armed
  _error_code,                \* Mode::_error_code, as the set of fault bits that are set
  _failsafe_active,           \* Mode::_failsafe_active
  started_gyro_calibration,   \* Mode::started_gyro_calibration (the calibration latch)
  prev_time_ms,               \* Mode::prev_time_ms (uint32)
  time_sticks_have_been_in_arming_position_ms,   \* the gesture hold timer (uint32)
  count,                      \* static uint8_t count of check_failsafe()
  led1,                       \* board LED 1: "on" or "off"
  clock_millis,               \* board clock, milliseconds (uint32)
  last,                       \* history: the call made by the latest step
  ticks,                      \* history: budget of clock steps spent so far
  hold,                       \* history: the current run of arm-gesture epochs
  fs,                         \* history: the failsafe epochs seen so far
  cal_requested               \* history: a calibration start was requested
                              \* since the latest disarm() (or since init)

vars == <<_armed, _error_code, _failsafe_active, started_gyro_calibration,
          prev_time_ms, time_sticks_have_been_in_arming_position_ms, count,
          led1, clock_millis, last, ticks, hold, fs, cal_requested>>

(***************************************************************************)
(* Bounds of the model.                                                    *)
(***************************************************************************)
\* budget of clock steps of the general specification, in half epochs
MaxTicks == 5
\* clock advances explored by the gesture scenarios (26 epochs and a re-hold)
MaxGestureTicks == 56
\* clock advances explored by the failsafe scenarios (two blink periods)
MaxFailsafeTicks == 54
\* RC channels a frame carries
MaxChannels == 2

(***************************************************************************)
(* uint32_t arithmetic.  A value is kept as two 16-bit halves so that the  *)
(* full 32-bit width, and its wrap-around, is preserved.                   *)
(***************************************************************************)
Pow16 == 2^16

U32(n) == [hi |-> (n \div Pow16) % Pow16, lo |-> n % Pow16]

U32Add(a, b) ==
  LET lo == a.lo + b.lo
  IN  [hi |-> (a.hi + b.hi + (lo \div Pow16)) % Pow16, lo |-> lo % Pow16]

\* mutant: the difference does not wrap, a clock behind prev_time_ms gives 0
U32SubSaturating(a, b) ==
  IF a.hi < b.hi \/ (a.hi = b.hi /\ a.lo < b.lo)
  THEN [hi |-> 0, lo |-> 0]
  ELSE LET lo == a.lo - b.lo
           borrow == IF lo < 0 THEN 1 ELSE 0
       IN  [hi |-> a.hi - b.hi - borrow, lo |-> lo + borrow * Pow16]

U32Sub(a, b) ==
  LET lo == a.lo - b.lo
      borrow == IF lo < 0 THEN 1 ELSE 0
  IN  [hi |-> (a.hi - b.hi - borrow + 2 * Pow16) % Pow16,
       lo |-> lo + borrow * Pow16]

\* a < n and a > n for a uint32 a and a small literal n
U32Lt(a, n) == a.hi = 0 /\ a.lo < n
U32Gt(a, n) == a.hi > 0 \/ a.lo > n

(***************************************************************************)
(* Fault bits of _error_code.  RC_LOST is the one this module owns; OTHER  *)
(* stands for any fault another subsystem raises.                          *)
(***************************************************************************)
ERROR_NONE == {}
ERROR_RC_LOST == "RC_LOST"
ERROR_OTHER == "OTHER"
Faults == {ERROR_RC_LOST, ERROR_OTHER}

set_error_code(code, e) == code \cup {e}
clear_error_code(code, e) == code \ {e}

(***************************************************************************)
(* LED 1 of the board.                                                     *)
(***************************************************************************)
led1_on(l) == "on"
led1_off(l) == "off"
led1_toggle(l) == IF l = "on" THEN "off" ELSE "on"

(***************************************************************************)
(* The Mode object together with the blink counter and the LED, as one     *)
(* record: the functions below take it and return it changed.              *)
(***************************************************************************)
Self ==
  [armed |-> _armed,
   error_code |-> _error_code,
   failsafe_active |-> _failsafe_active,
   started_gyro_calibration |-> started_gyro_calibration,
   prev_time_ms |-> prev_time_ms,
   held_ms |-> time_sticks_have_been_in_arming_position_ms,
   count |-> count,
   led1 |-> led1]

\* what a call did besides changing the object: its return value and the
\* collaborator calls it made
NoEffect ==
  [ret |-> FALSE, failsafe |-> FALSE, arm_called |-> FALSE, arm_ret |-> FALSE,
   disarm_called |-> FALSE, start_gyro_calibration |-> FALSE,
   gyro_polled |-> FALSE, led_toggled |-> FALSE, led_cmd |-> "none"]

(***************************************************************************)
(* Mode::arm().  cal is PARAM_CALIBRATE_GYRO_ON_ARM as read by the call,   *)
(* gyro is what gyro_calibration_complete() answers if the call asks.      *)
(***************************************************************************)
\* mutant: only the RC_LOST bit is looked at
fault_active_rc_lost_only(code) == ERROR_RC_LOST \in code

\* _error_code != ERROR_NONE
fault_active(code) == code # ERROR_NONE

\* mutant: the latch is not consulted, every attempt restarts calibration
calibration_not_started_unlatched(m) == ~m.armed

\* !started_gyro_calibration && !_armed
calibration_not_started(m) == ~m.started_gyro_calibration /\ ~m.armed

arm(m, cal, gyro) ==
  IF fault_active(m.error_code)
  THEN [m |-> m, e |-> [NoEffect EXCEPT !.arm_called = TRUE]]
  ELSE IF cal
  THEN IF calibration_not_started(m)
       THEN [m |-> [m EXCEPT !.started_gyro_calibration = TRUE],
             e |-> [NoEffect EXCEPT !.arm_called = TRUE,
                                    !.start_gyro_calibration = TRUE]]
       ELSE IF gyro
       THEN [m |-> [m EXCEPT !.started_gyro_calibration = FALSE,
                             !.armed = TRUE,
                             !.led1 = led1_on(m.led1)],
             e |-> [NoEffect EXCEPT !.arm_called = TRUE, !.gyro_polled = TRUE,
                                    !.ret = TRUE, !.arm_ret = TRUE,
                                    !.led_cmd = "on"]]
       ELSE [m |-> m,
             e |-> [NoEffect EXCEPT !.arm_called = TRUE, !.gyro_polled = TRUE]]
  ELSE IF ~m.armed
       THEN [m |-> [m EXCEPT !.armed = TRUE, !.led1 = led1_on(m.led1)],
             e |-> [NoEffect EXCEPT !.arm_called = TRUE, !.ret = TRUE,
                                    !.arm_ret = TRUE, !.led_cmd = "on"]]
       ELSE [m |-> m, e |-> [NoEffect EXCEPT !.arm_called = TRUE]]

(***************************************************************************)
(* Mode::disarm().                                                         *)
(***************************************************************************)
\* mutant: a disarm request is dropped while failsafe is active
disarm_unless_failsafe(m) ==
  IF m.failsafe_active
  THEN [m |-> m, e |-> [NoEffect EXCEPT !.disarm_called = TRUE]]
  ELSE [m |-> [m EXCEPT !.armed = FALSE, !.led1 = led1_off(m.led1)],
        e |-> [NoEffect EXCEPT !.disarm_called = TRUE, !.led_cmd = "off"]]

\* mutant: disarm() leaves the LED as it is
disarm_without_led(m) ==
  [m |-> [m EXCEPT !.armed = FALSE],
   e |-> [NoEffect EXCEPT !.disarm_called = TRUE]]

disarm(m) ==
  [m |-> [m EXCEPT !.armed = FALSE, !.led1 = led1_off(m.led1)],
   e |-> [NoEffect EXCEPT !.disarm_called = TRUE, !.led_cmd = "off"]]

(***************************************************************************)
(* What one call reads from its collaborators.  Stick positions and the    *)
(* arm threshold are floats in the source; they are kept in hundredths     *)
(* (0.95 is 95), and the values used stay away from the rounding of        *)
(* 1.0f - threshold.                                                       *)
(***************************************************************************)
ArmThreshold == 10           \* PARAM_ARM_THRESHOLD, 0.1
PwmMin == 900
PwmMax == 2100
MinPeriodMs == 20
HoldMs == 500
BlinkCount == 25

arm_gesture(in) ==
  in.stick_F < in.threshold /\ in.stick_Z > 100 - in.threshold

disarm_gesture(in) ==
  in.stick_F < in.threshold /\ in.stick_Z < -(100 - in.threshold)

\* the gesture of the current direction: arm while disarmed, disarm while armed
current_gesture(m, in) ==
  IF ~m.armed THEN arm_gesture(in) ELSE disarm_gesture(in)

(***************************************************************************)
(* Mode::check_failsafe().                                                 *)
(***************************************************************************)
\* mutant: the ends of the band, 900 and 2100, count as invalid
rc_invalid_at_band_ends(in) ==
  \E i \in 0..(in.num_channels - 1) : in.pwm[i] <= PwmMin \/ in.pwm[i] >= PwmMax

rc_invalid(in) ==
  \E i \in 0..(in.num_channels - 1) : in.pwm[i] < PwmMin \/ in.pwm[i] > PwmMax

\* mutant: the LED is toggled one epoch earlier
blink_due_at_25(c) == c >= BlinkCount

blink_due(c) == c > BlinkCount

\* mutant: an out-of-range channel raises RC_LOST as a lost link does
check_failsafe_fault_on_invalid(m, in) ==
  LET failsafe == IF in.pwm_lost THEN TRUE ELSE rc_invalid(in)
      m1 == IF failsafe
            THEN [m EXCEPT !.error_code = set_error_code(m.error_code, ERROR_RC_LOST)]
            ELSE m
  IN  IF failsafe
      THEN LET due == blink_due(m1.count)
               c == IF due THEN 0 ELSE m1.count
           IN  [m |-> [m1 EXCEPT !.led1 = IF due THEN led1_toggle(m1.led1) ELSE m1.led1,
                                 !.count = (c + 1) % 256,
                                 !.failsafe_active = TRUE],
                e |-> [NoEffect EXCEPT !.failsafe = TRUE, !.led_toggled = due,
                                       !.led_cmd = IF due THEN "toggle" ELSE "none"]]
      ELSE [m |-> [m1 EXCEPT !.failsafe_active = FALSE,
                             !.error_code = clear_error_code(m1.error_code, ERROR_RC_LOST),
                             !.led1 = IF m1.armed THEN led1_on(m1.led1)
                                                  ELSE led1_off(m1.led1)],
            e |-> [NoEffect EXCEPT !.led_cmd = IF m1.armed THEN "on" ELSE "off"]]

check_failsafe(m, in) ==
  LET failsafe == IF in.pwm_lost THEN TRUE ELSE rc_invalid(in)
      m1 == IF in.pwm_lost
            THEN [m EXCEPT !.error_code = set_error_code(m.error_code, ERROR_RC_LOST)]
            ELSE m
  IN  IF failsafe
      THEN LET due == blink_due(m1.count)
               c == IF due THEN 0 ELSE m1.count
           IN  [m |-> [m1 EXCEPT !.led1 = IF due THEN led1_toggle(m1.led1) ELSE m1.led1,
                                 !.count = (c + 1) % 256,
                                 !.failsafe_active = TRUE],
                e |-> [NoEffect EXCEPT !.failsafe = TRUE, !.led_toggled = due,
                                       !.led_cmd = IF due THEN "toggle" ELSE "none"]]
      ELSE [m |-> [m1 EXCEPT !.failsafe_active = FALSE,
                             !.error_code = clear_error_code(m1.error_code, ERROR_RC_LOST),
                             !.led1 = IF m1.armed THEN led1_on(m1.led1)
                                                  ELSE led1_off(m1.led1)],
            e |-> [NoEffect EXCEPT !.led_cmd = IF m1.armed THEN "on" ELSE "off"]]

(***************************************************************************)
(* Mode::update_state(), now being what clock_millis() answers.            *)
(***************************************************************************)
rate_limited(dt) == U32Lt(dt, MinPeriodMs)

\* mutant: the hold is long enough at 500 ms already
hold_reached_at_500(h) == ~U32Lt(h, HoldMs)

\* mutant: only a lost link keeps the arming logic from running
preempted_by_link_loss(cf) == cf.e.failsafe /\ ERROR_RC_LOST \in cf.m.error_code

\* if (check_failsafe()) return true;
preempted(cf) == cf.e.failsafe

\* mutant: arm() is attempted only in the epoch that takes the hold past 500 ms
hold_reached_first_epoch_only(h) ==
  U32Gt(h, HoldMs) /\ ~U32Gt(h, HoldMs + MinPeriodMs)

hold_reached(h) == U32Gt(h, HoldMs)

\* the effects of a callee, kept on top of what the caller did before it
After(e0, e1) ==
  [e1 EXCEPT !.ret = TRUE,
             !.failsafe = e0.failsafe,
             !.led_cmd = IF e1.led_cmd = "none" THEN e0.led_cmd ELSE e1.led_cmd]

\* mutant: releasing the gesture keeps the time accumulated so far
gesture_disarmed_without_reset(m, in, dt) ==
  LET h == IF arm_gesture(in) THEN U32Add(m.held_ms, dt) ELSE m.held_ms
      m1 == [m EXCEPT !.held_ms = h]
  IN  IF U32Gt(h, HoldMs)
      THEN LET r == arm(m1, in.calibrate, in.gyro_complete)
           IN  [m |-> IF r.e.ret THEN [r.m EXCEPT !.held_ms = U32(0)] ELSE r.m,
                e |-> r.e]
      ELSE [m |-> m1, e |-> NoEffect]

gesture_disarmed(m, in, dt) ==
  LET h == IF arm_gesture(in) THEN U32Add(m.held_ms, dt) ELSE U32(0)
      m1 == [m EXCEPT !.held_ms = h]
  IN  IF hold_reached(h)
      THEN LET r == arm(m1, in.calibrate, in.gyro_complete)
           IN  [m |-> IF r.e.ret THEN [r.m EXCEPT !.held_ms = U32(0)] ELSE r.m,
                e |-> r.e]
      ELSE [m |-> m1, e |-> NoEffect]

gesture_armed(m, in, dt) ==
  LET h == IF disarm_gesture(in) THEN U32Add(m.held_ms, dt) ELSE U32(0)
      m1 == [m EXCEPT !.held_ms = h]
  IN  IF hold_reached(h)
      THEN LET r == disarm(m1)
           IN  [m |-> [r.m EXCEPT !.held_ms = U32(0)], e |-> r.e]
      ELSE [m |-> m1, e |-> NoEffect]

\* mutant: the switch can only disarm
switch_arming_off_only(m, in) ==
  IF in.arm_switch
  THEN [m |-> m, e |-> NoEffect]
  ELSE disarm(m)

\* mutant: the switch does not disarm while a fault is active
switch_arming_off_unless_fault(m, in) ==
  IF in.arm_switch
  THEN IF ~m.armed THEN arm(m, in.calibrate, in.gyro_complete)
                   ELSE [m |-> m, e |-> NoEffect]
  ELSE IF fault_active(m.error_code)
       THEN [m |-> m, e |-> NoEffect]
       ELSE disarm(m)

switch_arming(m, in) ==
  IF in.arm_switch
  THEN IF ~m.armed THEN arm(m, in.calibrate, in.gyro_complete)
                   ELSE [m |-> m, e |-> NoEffect]
  ELSE disarm(m)

update_state(m, now, in) ==
  LET dt == U32Sub(now, m.prev_time_ms)
  IN  IF rate_limited(dt)
      THEN [m |-> m, e |-> NoEffect]
      ELSE LET cf == check_failsafe([m EXCEPT !.prev_time_ms = now], in)
           IN  IF preempted(cf)
               THEN [m |-> cf.m, e |-> [cf.e EXCEPT !.ret = TRUE]]
               ELSE LET r == IF ~in.arm_switch_mapped
                             THEN IF ~cf.m.armed
                                  THEN gesture_disarmed(cf.m, in, dt)
                                  ELSE gesture_armed(cf.m, in, dt)
                             ELSE switch_arming(cf.m, in)
                    IN  [m |-> r.m, e |-> After(cf.e, r.e)]

(***************************************************************************)
(* History variables.  They record what the latest call did and read, and  *)
(* count epochs; no function of the program reads them.                    *)
(***************************************************************************)
Idle ==
  [op |-> "none", e |-> NoEffect, lost |-> FALSE, invalid |-> FALSE,
   mapped |-> FALSE, sw |-> FALSE, arm_g |-> FALSE, held_g |-> FALSE,
   cal |-> FALSE, gyro |-> FALSE, band_end |-> FALSE, degraded |-> FALSE]

\* the frame of an epoch as the RC link delivers it: some configured channel
\* sits exactly on an end of the valid band
AtBandEnd(in) ==
  ~in.pwm_lost
  /\ \E i \in DOMAIN in.pwm : i < in.num_channels /\ in.pwm[i] \in {PwmMin, PwmMax}

\* the link is lost, or not every configured channel is within [900, 2100]
LinkDegraded(in) ==
  in.pwm_lost
  \/ ~(\A i \in DOMAIN in.pwm : i < in.num_channels => in.pwm[i] \in PwmMin..PwmMax)

\* the run of processed epochs, 20 ms apart, that hold the arm gesture in
\* gesture mode with no failsafe, no fault and calibrate-on-arm disabled,
\* begun while disarmed with the hold timer at 0:
\*   n      epochs of the run so far (0: no run)
\*   rises  false-to-true changes of armed during the run
\*   since  arm-gesture time accumulated since the gesture was last released
\*   clean  disarmed since that release, up to the start of the latest call
\*   partial  that release cut a hold short (the timer was above 0)
\*   prev_g   the latest processed epoch satisfied the arm gesture
NoHold == [n |-> 0, rises |-> 0, since |-> U32(0), clean |-> TRUE,
           partial |-> FALSE, prev_g |-> FALSE]

\* the failsafe epochs:
\*   total    failsafe epochs since startup
\*   run      failsafe epochs of the current run of consecutive ones
\*   toggles  LED toggles during the current run
\*   lost_from_startup  the link was lost in every processed epoch so far
NoFs == [total |-> 0, run |-> 0, toggles |-> 0, lost_from_startup |-> TRUE]

\* epochs of 20 ms until the hold timer exceeds 500 ms
HoldEpochs == HoldMs \div MinPeriodMs + 1

HoldAfterUpdate(m, in, dt, r) ==
  LET fault == clear_error_code(m.error_code, ERROR_RC_LOST) # ERROR_NONE
      plain == /\ dt = U32(MinPeriodMs) /\ ~r.e.failsafe /\ ~in.arm_switch_mapped
               /\ ~fault /\ ~in.calibrate /\ arm_gesture(in)
               /\ in.threshold = ArmThreshold /\ in.stick_F = 0 /\ in.stick_Z = 95
      starts == hold.n = 0 /\ ~m.armed /\ m.held_ms = U32(0)
      goes_on == hold.n >= 1 /\ hold.n < HoldEpochs
      rose == ~m.armed /\ r.m.armed
      gesture_epoch == ~r.e.failsafe /\ ~in.arm_switch_mapped
      accumulates == gesture_epoch /\ ~m.armed /\ arm_gesture(in)
      release == gesture_epoch /\ ~m.armed /\ ~arm_gesture(in)
  IN  [n |-> IF plain /\ (starts \/ goes_on) THEN hold.n + 1 ELSE 0,
       rises |-> IF plain /\ (starts \/ goes_on)
                 THEN (IF starts THEN 0 ELSE hold.rises) + (IF rose THEN 1 ELSE 0)
                 ELSE 0,
       since |-> IF accumulates THEN U32Add(hold.since, dt)
                 ELSE IF gesture_epoch THEN U32(0) ELSE hold.since,
       clean |-> IF release THEN TRUE ELSE hold.clean /\ ~m.armed,
       partial |-> IF release THEN U32Gt(m.held_ms, 0) ELSE hold.partial,
       prev_g |-> arm_gesture(in)]

\* a disarm() abandons the attempt in progress; a calibration start request
\* belongs to the attempt that follows
CalRequestedAfter(e) ==
  IF e.disarm_called THEN FALSE
  ELSE IF e.start_gyro_calibration THEN TRUE
  ELSE cal_requested

FsAfterUpdate(in, r) ==
  IF r.e.failsafe
  THEN [total |-> fs.total + 1,
        run |-> fs.run + 1,
        toggles |-> fs.toggles + (IF r.e.led_toggled THEN 1 ELSE 0),
        lost_from_startup |-> fs.lost_from_startup /\ in.pwm_lost]
  ELSE [total |-> fs.total, run |-> 0, toggles |-> 0,
        lost_from_startup |-> FALSE]

(***************************************************************************)
(* State after Mode::Mode() and Mode::init().  The LED is whatever the     *)
(* board left it.                                                          *)
(***************************************************************************)
Init ==
  /\ _armed = FALSE
  /\ _error_code = ERROR_NONE
  /\ _failsafe_active = FALSE
  /\ started_gyro_calibration = FALSE
  /\ prev_time_ms = U32(0)
  /\ time_sticks_have_been_in_arming_position_ms = U32(0)
  /\ count = 0
  /\ led1 \in {"on", "off"}
  /\ clock_millis = U32(0)
  /\ last = Idle
  /\ ticks = 0
  /\ hold = NoHold
  /\ fs = NoFs
  /\ cal_requested = FALSE

Apply(m) ==
  /\ _armed' = m.armed
  /\ _error_code' = m.error_code
  /\ _failsafe_active' = m.failsafe_active
  /\ started_gyro_calibration' = m.started_gyro_calibration
  /\ prev_time_ms' = m.prev_time_ms
  /\ time_sticks_have_been_in_arming_position_ms' = m.held_ms
  /\ count' = m.count
  /\ led1' = m.led1

Program == <<_armed, _error_code, _failsafe_active, started_gyro_calibration,
             prev_time_ms, time_sticks_have_been_in_arming_position_ms, count,
             led1>>

(***************************************************************************)
(* The calls.                                                              *)
(***************************************************************************)
\* another module calls arm()
CallArm(cal, gyro) ==
  LET r == arm(Self, cal, gyro)
  IN  /\ Apply(r.m)
      /\ last' = [Idle EXCEPT !.op = "arm", !.e = r.e,
                              !.cal = cal /\ Self.error_code = ERROR_NONE,
                              !.gyro = gyro /\ r.e.gyro_polled]
      /\ hold' = [hold EXCEPT !.n = 0, !.rises = 0,
                              !.clean = hold.clean /\ ~_armed]
      /\ cal_requested' = CalRequestedAfter(r.e)
      /\ UNCHANGED <<clock_millis, ticks, fs>>

\* another module calls disarm()
CallDisarm ==
  LET r == disarm(Self)
  IN  /\ Apply(r.m)
      /\ last' = [Idle EXCEPT !.op = "disarm", !.e = r.e]
      /\ hold' = [hold EXCEPT !.n = 0, !.rises = 0,
                              !.clean = hold.clean /\ ~_armed]
      /\ cal_requested' = CalRequestedAfter(r.e)
      /\ UNCHANGED <<clock_millis, ticks, fs>>

\* the firmware loop calls update_state(); watch names the epoch histories
\* (hold, fs) the specification keeps
UpdateState(in, watch) ==
  LET r == update_state(Self, clock_millis, in)
      dt == U32Sub(clock_millis, prev_time_ms)
  IN  /\ Apply(r.m)
      /\ last' = [op |-> "update", e |-> r.e,
                  lost |-> r.e.ret /\ in.pwm_lost,
                  invalid |-> r.e.ret /\ ~in.pwm_lost /\ rc_invalid(in),
                  mapped |-> r.e.ret /\ in.arm_switch_mapped,
                  sw |-> r.e.ret /\ in.arm_switch_mapped /\ in.arm_switch,
                  arm_g |-> r.e.ret /\ ~in.arm_switch_mapped /\ arm_gesture(in),
                  held_g |-> r.e.ret /\ ~in.arm_switch_mapped
                             /\ current_gesture(Self, in),
                  cal |-> r.e.arm_called /\ in.calibrate
                          /\ r.m.error_code = ERROR_NONE,
                  gyro |-> r.e.gyro_polled /\ in.gyro_complete,
                  band_end |-> r.e.ret /\ AtBandEnd(in),
                  degraded |-> r.e.ret /\ LinkDegraded(in)]
      /\ hold' = IF r.e.ret /\ "hold" \in watch
                 THEN HoldAfterUpdate(Self, in, dt, r) ELSE hold
      /\ fs' = IF r.e.ret /\ "fs" \in watch THEN FsAfterUpdate(in, r) ELSE fs
      /\ cal_requested' = CalRequestedAfter(r.e)
      /\ UNCHANGED <<clock_millis, ticks>>

(***************************************************************************)
(* The environment.                                                        *)
(***************************************************************************)
\* the board clock advances by d milliseconds; the step takes cost out of the
\* budget max of clock steps the specification explores
ClockAdvance(d, cost, max) ==
  /\ ticks + cost <= max
  /\ clock_millis' = U32Add(clock_millis, d)
  /\ ticks' = ticks + cost
  /\ last' = Idle
  /\ UNCHANGED <<Program, hold, fs, cal_requested>>

\* another subsystem raises a fault
SetError ==
  /\ ERROR_OTHER \notin _error_code
  /\ _error_code' = set_error_code(_error_code, ERROR_OTHER)
  /\ last' = Idle
  /\ UNCHANGED <<_armed, _failsafe_active, started_gyro_calibration, prev_time_ms,
                 time_sticks_have_been_in_arming_position_ms, count, led1,
                 clock_millis, ticks, hold, fs, cal_requested>>

\* another subsystem clears its fault
ClearError ==
  /\ ERROR_OTHER \in _error_code
  /\ _error_code' = clear_error_code(_error_code, ERROR_OTHER)
  /\ last' = Idle
  /\ UNCHANGED <<_armed, _failsafe_active, started_gyro_calibration, prev_time_ms,
                 time_sticks_have_been_in_arming_position_ms, count, led1,
                 clock_millis, ticks, hold, fs, cal_requested>>

(***************************************************************************)
(* Inputs.                                                                 *)
(***************************************************************************)
Channels == 0..(MaxChannels - 1)

AllAt(w) == [i \in Channels |-> w]

\* RC frames: link lost; every channel centred; channel 0 too short; the last
\* channel too long but beyond the configured channel count
RcFrames ==
  { [pwm_lost |-> TRUE, pwm |-> AllAt(0), num_channels |-> MaxChannels],
    [pwm_lost |-> FALSE, pwm |-> AllAt(1500), num_channels |-> MaxChannels],
    [pwm_lost |-> FALSE, pwm |-> [AllAt(1500) EXCEPT ![0] = PwmMin - 1],
     num_channels |-> MaxChannels],
    [pwm_lost |-> FALSE, pwm |-> [AllAt(1500) EXCEPT ![MaxChannels - 1] = PwmMax + 1],
     num_channels |-> MaxChannels - 1] }

\* throttle and yaw: arm gesture, disarm gesture, throttle up
Sticks ==
  { [stick_F |-> 0, stick_Z |-> 95], [stick_F |-> 0, stick_Z |-> -95],
    [stick_F |-> 50, stick_Z |-> 95] }

\* arm switch: not mapped, mapped and off, mapped and on
Switches ==
  { [arm_switch_mapped |-> FALSE, arm_switch |-> FALSE],
    [arm_switch_mapped |-> TRUE, arm_switch |-> FALSE],
    [arm_switch_mapped |-> TRUE, arm_switch |-> TRUE] }

\* calibrate-on-arm and the gyro calibration status
Calibrations ==
  { [calibrate |-> FALSE, gyro_complete |-> FALSE],
    [calibrate |-> TRUE, gyro_complete |-> FALSE],
    [calibrate |-> TRUE, gyro_complete |-> TRUE] }

Input(f, s, w, c) ==
  [pwm_lost |-> f.pwm_lost, pwm |-> f.pwm, num_channels |-> f.num_channels,
   stick_F |-> s.stick_F, stick_Z |-> s.stick_Z,
   arm_switch_mapped |-> w.arm_switch_mapped, arm_switch |-> w.arm_switch,
   calibrate |-> c.calibrate, gyro_complete |-> c.gyro_complete,
   threshold |-> ArmThreshold]

FrameLost == [pwm_lost |-> TRUE, pwm |-> AllAt(0), num_channels |-> MaxChannels]
FrameValid == [pwm_lost |-> FALSE, pwm |-> AllAt(1500), num_channels |-> MaxChannels]
ArmSticks == [stick_F |-> 0, stick_Z |-> 95]
DisarmSticks == [stick_F |-> 0, stick_Z |-> -95]
IdleSticks == [stick_F |-> 50, stick_Z |-> 95]
Unmapped == [arm_switch_mapped |-> FALSE, arm_switch |-> FALSE]
SwitchOn == [arm_switch_mapped |-> TRUE, arm_switch |-> TRUE]
SwitchOff == [arm_switch_mapped |-> TRUE, arm_switch |-> FALSE]
NoCalibration == [calibrate |-> FALSE, gyro_complete |-> FALSE]

\* the user interface of an epoch: sticks matter in gesture mode, the switch
\* when it is mapped (the sticks then sit in the arm gesture)
Gestures == { <<s, Unmapped>> : s \in Sticks }
UserInputs == Gestures \cup { <<ArmSticks, SwitchOn>>, <<ArmSticks, SwitchOff>> }

\* inputs of the general specification: a valid frame with every user input
\* and calibration setting, and every frame with the inputs that ask to arm
\* or to disarm
Inputs ==
  { Input(FrameValid, u[1], u[2], c) : u \in UserInputs, c \in Calibrations }
  \cup { Input(f, u[1], u[2], NoCalibration) :
           f \in RcFrames,
           u \in { <<ArmSticks, Unmapped>>, <<ArmSticks, SwitchOn>>,
                   <<ArmSticks, SwitchOff>> } }

\* clock steps: half an epoch, one epoch, and a step that takes the 32-bit
\* clock around (and is longer than the hold time)
WrapStep == [hi |-> Pow16 - 1, lo |-> Pow16 - 30]
ClockSteps == { U32(10), U32(MinPeriodMs), WrapStep }
\* half an epoch counts once against the budget, a longer step twice
StepCost(d) == IF d = U32(10) THEN 1 ELSE 2

(***************************************************************************)
(* The general specification: every call with every input, the clock       *)
(* free.                                                                   *)
(***************************************************************************)
Next ==
  \/ \E d \in ClockSteps : ClockAdvance(d, StepCost(d), MaxTicks)
  \/ \E in \in Inputs : UpdateState(in, {})
  \/ \E c \in Calibrations : CallArm(c.calibrate, c.gyro_complete)
  \/ CallDisarm
  \/ SetError
  \/ ClearError

Spec == Init /\ [][Next]_vars

(***************************************************************************)
(* The gesture scenarios: the firmware loop calls update_state() once per  *)
(* 20 ms epoch, the arm switch is not mapped, the link is valid,          *)
(* calibrate-on-arm is disabled, and the pilot moves the sticks freely;    *)
(* another module may call disarm() at any moment.                         *)
(***************************************************************************)
\* the clock advances by one epoch once the previous epoch has been processed
EpochPasses(max) ==
  /\ prev_time_ms = clock_millis
  /\ ClockAdvance(U32(MinPeriodMs), 1, max)

GestureInputs ==
  { Input(FrameValid, s, Unmapped, NoCalibration) : s \in Sticks }

NextGesture ==
  \/ EpochPasses(MaxGestureTicks)
  \/ \E in \in GestureInputs : UpdateState(in, {"hold"})
  \/ CallDisarm

SpecGesture == Init /\ [][NextGesture]_vars

(***************************************************************************)
(* The gesture with an irregular loop: as the gesture scenarios, but the   *)
(* clock is free between two calls of update_state(), so that an epoch may *)
(* come long after the previous one.                                       *)
(***************************************************************************)
NextSample ==
  \/ \E d \in ClockSteps : ClockAdvance(d, StepCost(d), MaxTicks)
  \/ \E in \in GestureInputs : UpdateState(in, {"hold"})
  \/ CallDisarm

SpecSample == Init /\ [][NextSample]_vars

(***************************************************************************)
(* The pilot holds the arm gesture: the firmware loop keeps calling        *)
(* update_state() while the clock advances by 20 ms epochs, the link is    *)
(* valid, the arm switch is not mapped, no fault is raised and nobody      *)
(* calls disarm().  Calibrate-on-arm is read either way; a gyro            *)
(* calibration may report incomplete up to epoch GyroDeadline and reports  *)
(* complete from then on.                                                  *)
(***************************************************************************)
GyroDeadline == HoldEpochs + 4

HeldInputs ==
  { Input(FrameValid, ArmSticks, Unmapped, c) : c \in Calibrations }

GyroInTime(in) ==
  ~in.calibrate \/ in.gyro_complete \/ ticks <= GyroDeadline

UpdateHeld ==
  \E in \in HeldInputs : GyroInTime(in) /\ UpdateState(in, {})

NextHeld ==
  \/ EpochPasses(MaxGestureTicks)
  \/ UpdateHeld

\* the loop runs: the clock advances and update_state() is called again
SpecHeld ==
  /\ Init
  /\ [][NextHeld]_vars
  /\ WF_vars(EpochPasses(MaxGestureTicks))
  /\ WF_vars(UpdateHeld)

(***************************************************************************)
(* The failsafe scenarios: the firmware loop calls update_state() once per *)
(* 20 ms epoch while the RC link comes and goes; the sticks stay out of    *)
(* both gestures and the arm switch is not mapped, so the module stays     *)
(* disarmed.                                                               *)
(***************************************************************************)
FailsafeInputs ==
  { Input(f, IdleSticks, Unmapped, NoCalibration) : f \in RcFrames }

NextFailsafe ==
  \/ EpochPasses(MaxFailsafeTicks)
  \/ \E in \in FailsafeInputs : UpdateState(in, {"fs"})

SpecFailsafe == Init /\ [][NextFailsafe]_vars

(***************************************************************************)
(* The calibration scenarios: calibrate-on-arm is enabled throughout; every *)
(* call that reads the parameter reads it set.  The link is valid or lost, *)
(* the gyro calibration completes whenever it likes.                       *)
(***************************************************************************)
CalibrateOnArm ==
  { c \in Calibrations : c.calibrate }

CalibrationInputs ==
  { Input(FrameValid, u[1], u[2], c) : u \in UserInputs, c \in CalibrateOnArm }
  \cup { Input(FrameLost, ArmSticks, SwitchOn, c) : c \in CalibrateOnArm }

NextCalibration ==
  \/ \E d \in ClockSteps : ClockAdvance(d, StepCost(d), MaxTicks)
  \/ \E in \in CalibrationInputs : UpdateState(in, {})
  \/ \E c \in CalibrateOnArm : CallArm(c.calibrate, c.gyro_complete)
  \/ CallDisarm
  \/ SetError
  \/ ClearError

SpecCalibration == Init /\ [][NextCalibration]_vars

(***************************************************************************)
(* The frame scenarios: the firmware loop calls update_state() once per    *)
(* 20 ms epoch with the arm switch mapped, on or off, and every kind of RC *)
(* frame, those with channels on the ends of the valid band included.      *)
(***************************************************************************)
\* every channel on an end of the band; channel 0 too long
BandFrames ==
  { [pwm_lost |-> FALSE, pwm |-> [AllAt(PwmMax) EXCEPT ![0] = PwmMin],
     num_channels |-> MaxChannels],
    [pwm_lost |-> FALSE, pwm |-> [AllAt(1500) EXCEPT ![0] = PwmMax + 1],
     num_channels |-> MaxChannels] }

FrameInputs ==
  { Input(f, ArmSticks, w, NoCalibration) :
      f \in RcFrames \cup BandFrames, w \in {SwitchOn, SwitchOff} }

NextFrames ==
  \/ EpochPasses(MaxTicks)
  \/ \E in \in FrameInputs : UpdateState(in, {"fs"})

SpecFrames == Init /\ [][NextFrames]_vars

(***************************************************************************)
(* The switch scenarios: the arm switch is mapped in every epoch and the   *)
(* sticks move freely, through both gestures; the clock is free, the link  *)
(* is valid or lost, other modules call arm() and disarm() and raise       *)
(* faults.                                                                 *)
(***************************************************************************)
SwitchInputs ==
  { Input(FrameValid, s, w, c) :
      s \in Sticks, w \in {SwitchOn, SwitchOff}, c \in Calibrations }
  \cup { Input(FrameLost, ArmSticks, w, NoCalibration) : w \in {SwitchOn, SwitchOff} }

NextSwitch ==
  \/ \E d \in ClockSteps : ClockAdvance(d, StepCost(d), MaxTicks)
  \/ \E in \in SwitchInputs : UpdateState(in, {})
  \/ \E c \in Calibrations : CallArm(c.calibrate, c.gyro_complete)
  \/ CallDisarm
  \/ SetError
  \/ ClearError

SpecSwitch == Init /\ [][NextSwitch]_vars

(***************************************************************************)
(* Properties of the arming gate and of the orchestrator.                  *)
(***************************************************************************)
held_ms == time_sticks_have_been_in_arming_position_ms

\* now is less than 20 ms past prev on the 32-bit clock
Within20(prev, now) == \E k \in 0..(MinPeriodMs - 1) : now = U32Add(prev, U32(k))

\* the step is a processed epoch of update_state()
ProcessedEpoch == last'.op = "update" /\ last'.e.ret

\* C1: an arm() call made while a fault is active, directly or from
\* update_state(), returns false and changes nothing: armed, the calibration
\* latch and the LED stay, no calibration start is requested.  armed turns
\* from false to true only in an arm() call made with no fault active.
C1_FaultBlocksArm ==
  [][ /\ (last'.op = "arm" /\ _error_code' # ERROR_NONE)
         => /\ ~last'.e.ret
            /\ UNCHANGED Program
            /\ ~last'.e.start_gyro_calibration
            /\ last'.e.led_cmd = "none"
      /\ (last'.op = "update" /\ last'.e.arm_called /\ _error_code' # ERROR_NONE)
         => /\ ~last'.e.arm_ret
            /\ _armed' = _armed
            /\ started_gyro_calibration' = started_gyro_calibration
            /\ ~last'.e.start_gyro_calibration
            /\ led1' = (IF _armed THEN "on" ELSE "off")
      /\ (~_armed /\ _armed')
         => last'.e.arm_called /\ _error_code' = ERROR_NONE ]_vars

\* an arm request from the switch was refused because of a fault
C1_Witness ==
  /\ last.op = "update" /\ last.e.arm_called /\ last.sw
  /\ ERROR_OTHER \in _error_code /\ ~_armed

\* C2: after every disarm() call, direct or from update_state(), armed is
\* false and the LED was commanded off.
C2_DisarmTotal ==
  last.e.disarm_called => (~_armed /\ last.e.led_cmd = "off" /\ led1 = "off")

\* disarm() was called with a fault and failsafe active and a calibration pending
C2_Witness ==
  /\ last.op = "disarm" /\ _failsafe_active /\ _error_code # ERROR_NONE
  /\ started_gyro_calibration /\ ~_armed

\* C3: after every disarm() call the calibration latch is false.
C3_DisarmClearsLatch ==
  last.e.disarm_called => ~started_gyro_calibration

\* C4: after every disarm() call (direct, switch-off path, disarm gesture)
\* the gesture hold timer is 0.
C4_DisarmResetsTimer ==
  last.e.disarm_called => held_ms = U32(0)

\* C5: an arm() call that reads calibrate-on-arm enabled with no fault,
\* disarmed and the latch clear requests one calibration start, sets the
\* latch, returns false and leaves armed false; under calibrate-on-arm armed
\* turns true only in a call that observes gyro_calibration_complete(); a call
\* made with the latch set that observes it false returns false, leaves
\* armed false and requests no calibration start.
C5_CalibrationGating ==
  [][ (last'.e.arm_called /\ last'.cal)
      => /\ (~_armed /\ ~started_gyro_calibration)
            => /\ last'.e.start_gyro_calibration
               /\ started_gyro_calibration'
               /\ ~last'.e.arm_ret
               /\ ~_armed'
         /\ (~_armed /\ _armed')
            => last'.e.gyro_polled /\ last'.gyro
         /\ (~_armed /\ started_gyro_calibration /\ ~last'.gyro)
            => /\ last'.e.gyro_polled
               /\ ~last'.e.arm_ret
               /\ ~_armed'
               /\ ~last'.e.start_gyro_calibration
               /\ started_gyro_calibration' ]_vars

\* an arm() call under calibrate-on-arm saw calibration complete and armed
C5_Witness ==
  /\ last.e.arm_called /\ last.cal /\ last.e.gyro_polled /\ last.gyro
  /\ last.e.arm_ret /\ _armed /\ ~started_gyro_calibration

\* C6: a processed epoch (20 ms or more after the last one) in which
\* check_failsafe() reports failsafe leaves armed (and the latch and the
\* hold timer) unchanged, calls neither arm() nor disarm(), and returns true.
C6_FailsafePreempts ==
  [][ (last'.op = "update" /\ ~Within20(prev_time_ms, clock_millis)
       /\ _failsafe_active')
      => /\ last'.e.ret
         /\ last'.e.failsafe
         /\ ~last'.e.arm_called
         /\ ~last'.e.disarm_called
         /\ _armed' = _armed
         /\ started_gyro_calibration' = started_gyro_calibration
         /\ held_ms' = held_ms ]_vars

\* a failsafe epoch with the link present, the arm switch on and the module disarmed
C6_Witness ==
  /\ last.op = "update" /\ last.e.failsafe /\ ~last.lost
  /\ last.mapped /\ last.sw /\ ~_armed

\* C7: update_state() returns true iff the clock is 20 ms or more past
\* last_processed_ms in 32-bit unsigned arithmetic, and then sets
\* last_processed_ms to now; otherwise it returns false and changes nothing.
C7_RateLimiting ==
  [][ last'.op = "update"
      => /\ last'.e.ret <=> ~Within20(prev_time_ms, clock_millis)
         /\ last'.e.ret => prev_time_ms' = clock_millis
         /\ ~last'.e.ret => /\ UNCHANGED Program
                            /\ last'.e = NoEffect ]_vars

\* a call was rate-limited 10 ms after an epoch processed just before the
\* 32-bit clock wrapped
C7_Witness ==
  /\ last.op = "update" /\ ~last.e.ret
  /\ prev_time_ms.hi = Pow16 - 1 /\ clock_millis.hi = 0

(***************************************************************************)
(* Properties of the stick gesture.                                        *)
(***************************************************************************)
\* C8: in a run of processed epochs 20 ms apart that hold throttle 0.0 and
\* yaw 0.95 (threshold 0.1, gesture mode, valid link, no fault,
\* calibrate-on-arm disabled), begun disarmed with the hold timer at 0, armed
\* is false and the timer is 20 ms times the epoch number through epoch 25
\* (500 ms); at epoch 26 armed is true, the timer is back at 0, and armed has
\* risen exactly once in the run.
C8_GestureArmsAt26 ==
  /\ (hold.n >= 1 /\ hold.n < HoldEpochs)
     => (~_armed /\ held_ms = U32(MinPeriodMs * hold.n) /\ hold.rises = 0)
  /\ hold.n = HoldEpochs
     => (_armed /\ held_ms = U32(0) /\ hold.rises = 1)
  /\ hold.n <= HoldEpochs

\* the 26th epoch of such a run has just been processed
C8_Witness ==
  /\ hold.n = HoldEpochs /\ last.op = "update" /\ last.e.arm_ret
  /\ _armed /\ held_ms = U32(0)

\* C9: in gesture mode while disarmed, a processed epoch without failsafe at
\* which the arm gesture is not satisfied leaves the hold timer at 0; and
\* armed rises at a gesture epoch, the module having stayed disarmed since
\* the gesture was last released, only when the arm gesture has been held for
\* more than 500 ms since that release.
C9_ReleaseResetsHold ==
  [][ /\ (last'.op = "update" /\ last'.e.ret /\ ~_failsafe_active'
          /\ ~last'.mapped /\ ~_armed /\ ~last'.arm_g)
         => held_ms' = U32(0)
      /\ (last'.op = "update" /\ ~last'.mapped /\ ~_armed /\ _armed'
          /\ hold.clean)
         => U32Gt(hold'.since, HoldMs) ]_vars

\* the gesture was released during a hold, held again, and armed after 520 ms
\* of the second hold
C9_Witness ==
  /\ last.op = "update" /\ last.e.arm_ret /\ _armed
  /\ hold.partial /\ hold.clean /\ hold.since = U32(HoldMs + MinPeriodMs)

\* C13: every processed epoch in gesture mode at which the sticks do not
\* satisfy the gesture of the current direction (arm gesture while disarmed,
\* disarm gesture while armed) ends with the hold timer at 0, whether or not
\* failsafe is active in that epoch.
C13_ContiguousHoldOnly ==
  [][ (last'.op = "update" /\ last'.e.ret /\ ~last'.mapped /\ ~last'.held_g)
      => held_ms' = U32(0) ]_vars

\* C14: in gesture mode armed never turns from false to true at a processed
\* epoch that is the first of a run of epochs satisfying the arm gesture (the
\* preceding processed epoch did not satisfy it, or there was none), however
\* long after the preceding epoch it comes.
C14_NoSingleSampleArm ==
  [][ (last'.op = "update" /\ ~last'.mapped /\ ~_armed /\ _armed')
      => hold.prev_g ]_vars

\* C19: in gesture mode, with the arm gesture held, no fault, a valid link,
\* update_state() called again and again while the clock advances, and every
\* started gyro calibration completing in the end, armed eventually becomes
\* true with failsafe false; arm() is attempted at every processed epoch that
\* leaves the module disarmed with the hold timer above 500 ms.
C19_GestureEventuallyArms ==
  /\ <>(_armed /\ ~_failsafe_active)
  /\ [][ (ProcessedEpoch /\ ~_armed /\ ~_armed')
         => (last'.e.arm_called <=> U32Gt(held_ms', HoldMs)) ]_vars

\* the gesture armed the module after a calibration that was polled more
\* than once
C19_Witness ==
  /\ last.op = "update" /\ last.e.arm_ret /\ last.cal /\ last.gyro
  /\ _armed /\ ~_failsafe_active /\ ticks >= HoldEpochs + 2

(***************************************************************************)
(* Properties of the failsafe detector.                                    *)
(***************************************************************************)
BlinkPeriod == BlinkCount + 1
\* the 30 epochs of the link-loss scenario
ScenarioEpochs == BlinkPeriod + 4

\* the epoch just processed had the link present and every channel valid
LinkRestored ==
  last.op = "update" /\ last.e.ret /\ ~last.lost /\ ~last.invalid

C16_ArmWhenArmedIsNoOp ==
  [][ (last'.op = "arm" /\ _armed /\ _error_code = ERROR_NONE)
      => /\ ~last'.e.ret
         /\ UNCHANGED Program
         /\ ~last'.e.start_gyro_calibration
         /\ last'.e.led_cmd = "none" ]_vars

(***************************************************************************)
(* Properties of the arm switch.                                           *)
(***************************************************************************)
\* a processed epoch without failsafe reads the arm switch, mapped, as on,
\* with the module disarmed and no fault active
SwitchOnEpoch ==
  /\ last'.op = "update" /\ last'.e.ret /\ ~_failsafe_active'
  /\ last'.sw /\ ~_armed /\ _error_code' = ERROR_NONE

\* C11 as stated: with the arm switch mapped, no failsafe, no fault and the
\* module disarmed, one processed epoch that reads the switch as on ends
\* armed, for both settings of calibrate-on-arm.
C11_SwitchArmsInOneFrame ==
  [][ SwitchOnEpoch => _armed' ]_vars

\* C11, amended: such an epoch calls arm() once; it ends armed when
\* calibrate-on-arm is disabled; when it is enabled the epoch ends armed only
\* if the calibration latch was already set and gyro calibration reports
\* complete, and with the latch clear it requests a calibration start, sets
\* the latch and ends disarmed.
C11_SwitchArmsUnlessCalibrating ==
  [][ SwitchOnEpoch
      => /\ last'.e.arm_called
         /\ ~last'.cal => _armed'
         /\ (last'.cal /\ ~started_gyro_calibration)
            => (~_armed' /\ last'.e.start_gyro_calibration
                /\ started_gyro_calibration')
         /\ (last'.cal /\ started_gyro_calibration)
            => (_armed' <=> last'.gyro) ]_vars

\* the switch armed the module in one epoch, calibrate-on-arm being disabled
C11_Witness ==
  /\ last.op = "update" /\ last.sw /\ last.e.arm_ret /\ ~last.cal
  /\ _armed /\ ~_failsafe_active

\* C18: with the arm switch mapped, every processed epoch without failsafe
\* that reads the switch as off calls disarm() and ends disarmed, whatever
\* the state before it (armed, disarmed, calibration pending, faults); and
\* in a switch-mapped epoch the sticks play no part: with the switch on
\* armed is decided by arm() alone, called only when disarmed, and the hold
\* timer is left alone.
C18_SwitchOffDisarms ==
  [][ (ProcessedEpoch /\ ~_failsafe_active' /\ last'.mapped)
      => /\ ~last'.sw => (last'.e.disarm_called /\ ~_armed')
         /\ (last'.sw /\ _armed) => (_armed' /\ ~last'.e.arm_called)
         /\ (last'.sw /\ ~_armed)
            => /\ last'.e.arm_called
               /\ _armed' <=> /\ _error_code' = ERROR_NONE
                              /\ \/ ~last'.cal
                                 \/ started_gyro_calibration /\ last'.gyro
         /\ held_ms' = held_ms ]_vars

\* a switch-off epoch has disarmed a module with a calibration pending and a
\* fault active
C18_Witness ==
  /\ last.op = "update" /\ last.mapped /\ ~last.sw /\ last.e.disarm_called
  /\ ~_failsafe_active /\ ~_armed
  /\ started_gyro_calibration /\ ERROR_OTHER \in _error_code

(***************************************************************************)
(* Properties of the calibration latch.                                    *)
(***************************************************************************)
\* C12: with calibrate-on-arm enabled throughout, armed turns from false to
\* true only after a start_gyro_calibration() request issued since the most
\* recent disarm() (or since init).
C12_FreshCalibrationPerAttempt ==
  [][ (~_armed /\ _armed') => cal_requested' ]_vars

(***************************************************************************)
(* Properties of the RC_LOST fault and of the failsafe flag.               *)
(***************************************************************************)
\* C15 as stated: after every processed epoch RC_LOST is set only if the
\* link was lost in that epoch; an epoch with the link present and a channel
\* outside [900, 2100] is in failsafe and ends with RC_LOST not set; an epoch
\* without failsafe ends with RC_LOST clear.
C15_RcLostOnlyInLostEpochs ==
  [][ ProcessedEpoch
      => /\ ERROR_RC_LOST \in _error_code' => last'.lost
         /\ last'.invalid
            => (_failsafe_active' /\ ERROR_RC_LOST \notin _error_code')
         /\ ~_failsafe_active' => ERROR_RC_LOST \notin _error_code' ]_vars

\* C15, amended: an epoch with the link lost ends with RC_LOST set; an epoch
\* with the link present and a channel outside [900, 2100] is in failsafe and
\* leaves RC_LOST as it was (set, if the link was lost before and no epoch
\* without failsafe came since); an epoch without failsafe ends with RC_LOST
\* clear.
C15_RcLostKeptUntilValid ==
  [][ ProcessedEpoch
      => /\ last'.lost => (_failsafe_active' /\ ERROR_RC_LOST \in _error_code')
         /\ last'.invalid
            => /\ _failsafe_active'
               /\ ERROR_RC_LOST \in _error_code' <=> ERROR_RC_LOST \in _error_code
         /\ ~_failsafe_active' => ERROR_RC_LOST \notin _error_code'
         /\ (~last'.lost /\ ~last'.invalid) => ~_failsafe_active' ]_vars

\* an epoch with the link present and a channel out of range has passed with
\* RC_LOST still set from an earlier loss of the link
C15_Witness ==
  /\ last.op = "update" /\ last.invalid /\ _failsafe_active
  /\ ERROR_RC_LOST \in _error_code

\* C17: after every processed epoch failsafe_active() is true exactly when,
\* on that epoch's inputs, the link is lost or some channel below the
\* configured channel count has a pulse width below 900 or above 2100; 900
\* and 2100 are valid, channels at or beyond the count are ignored, and the
\* failsafe value of the epoch before plays no part.
C17_FailsafeRecomputed ==
  (last.op = "update" /\ last.e.ret)
  => /\ _failsafe_active <=> last.degraded
     /\ last.e.failsafe <=> last.degraded

\* after earlier failsafe epochs, an epoch with channels at exactly 900 and
\* 2100 has ended without failsafe
C17_Witness ==
  /\ last.op = "update" /\ last.e.ret /\ last.band_end
  /\ ~_failsafe_active /\ fs.total > 0

(***************************************************************************)
(* Properties of the LED.                                                  *)
(***************************************************************************)
\* C20: at the end of every processed epoch without failsafe the last LED
\* command issued in the epoch is on if armed is true and off if it is false,
\* and the LED is in that state, under either arming interface and whether
\* or not arm() or disarm() was called or succeeded in the epoch.
C20_LedMirrorsArmed ==
  (last.op = "update" /\ last.e.ret /\ ~last.e.failsafe)
  => /\ last.e.led_cmd = (IF _armed THEN "on" ELSE "off")
     /\ led1 = (IF _armed THEN "on" ELSE "off")

\* the disarm gesture has disarmed the module in the epoch just processed
C20_Witness ==
  /\ last.op = "update" /\ last.e.ret /\ ~last.e.failsafe /\ ~last.mapped
  /\ last.e.disarm_called /\ ~_armed /\ led1 = "off"

====
